---------------------------- MODULE Spec2Model ----------------------------
(***************************************************************************)
(* A model of five source files of tox:                                    *)
(*   tox/tox_env/python/pip/req_file.py   PythonDeps (deps normalization)  *)
(*   tox/tox_env/python/runner.py         PythonRun (setup, packaging)     *)
(*   tox/run.py                           run / main (process exit status) *)
(*   tox/plugin/manager.py                Plugin (pluggy registry)         *)
(*   tox/session/cmd/show_config.py       show_config / print_conf         *)
(* Each file is a sub-machine with its own variables and specification;    *)
(* the other sub-machines' variables stay at their idle values.            *)
(***************************************************************************)
EXTENDS Integers, Sequences, FiniteSets, TLC

VARIABLES
    \* ---- req_file.py ----
    d_raw,      \* the text handed in: a deps string, or an included file's content
    d_mode,     \* "deps": PythonDeps(raw, root); "file": content of a -r included file
    d_pc,       \* "start" | "constructed" | "processed" | "raised"
    self_raw,   \* PythonDeps._raw
    d_lines,    \* the lines _pre_process yielded
    d_err       \* "none" | "IndexError"

depsVars == <<d_raw, d_mode, d_pc, self_raw, d_lines, d_err>>

VARIABLES
    \* ---- plugin/manager.py ----
    m_eps,      \* the entry-point plugins installed, in the order they load
    m_noimpl,   \* the plugins that do not implement the hooks
    m_manager,  \* MANAGER.manager: [plugins: registration order, err]
    m_inline,   \* the inline plugin the last load_plugins found ("none": no tox_.py)
    m_seen,     \* the inline plugins the load_plugins calls so far found
    m_loads,    \* how many times load_plugins ran in this process
    m_hook,     \* the hook last dispatched ("none": none yet)
    m_calls     \* the plugins that dispatch called, in call order

pluginVars ==
    <<m_eps, m_noimpl, m_manager, m_inline, m_seen, m_loads, m_hook, m_calls>>

VARIABLES
    \* ---- run.py ----
    x_args,     \* the args parameter of run: [none, value]
    x_argv,     \* sys.argv[1:]
    x_pc,       \* "start" | "handler" | "main_done" | "exited"
    x_command,  \* state.options.command
    x_result,   \* what the handler returned: [kind, code]
    x_main,     \* how main ended: [kind, code]
    x_exit      \* what run raised: [exc, code]

exitVars == <<x_args, x_argv, x_pc, x_command, x_result, x_main, x_exit>>

VARIABLES
    \* ---- session/cmd/show_config.py ----
    s_envs,       \* state.envs.iter(package=True): the selected environments
    s_raising,    \* the <<section, key>> whose value cannot be resolved
    s_keys,       \* options.list_keys_only
    s_is_all,     \* options.env.is_all
    s_show_core,  \* options.show_core
    s_colored,    \* options.is_colored
    s_pc,         \* "start" | "done"
    s_out,        \* [lines: what was printed, err: an exception in flight]
    s_ret         \* what show_config returned (-1: nothing)

showVars ==
    <<s_envs, s_raising, s_keys, s_is_all, s_show_core, s_colored, s_pc, s_out, s_ret>>

VARIABLES
    \* ---- tox_env/python/runner.py ----
    r_mode,      \* "sequential" | "parallel"
    r_skipcfg,   \* skip_missing_interpreters in the core section: "unset" | "true" | "false"
    r_missing,   \* the run environments whose base interpreter is not found
    r_build,     \* what the package environment's build gives: "wheel" | "empty" | "fail"
    r_state,     \* per run environment: where it is in its lifecycle
    r_installed, \* per run environment: the install labels done, in order
    r_artifact,  \* per run environment: the package installed into it
    r_raised,    \* per run environment: the exception that ended its setup
    r_cmds,      \* per run environment: whether its commands were invoked
    r_pkg        \* the package environment: [state, builds, calls, artifact]

runVars ==
    <<r_mode, r_skipcfg, r_missing, r_build, r_state, r_installed, r_artifact,
      r_raised, r_cmds, r_pkg>>

vars == <<depsVars, pluginVars, exitVars, showVars, runVars>>

\* what an action of one sub-machine leaves alone
notDeps == <<pluginVars, exitVars, showVars, runVars>>

notPlugin == <<depsVars, exitVars, showVars, runVars>>

notExit == <<depsVars, pluginVars, showVars, runVars>>

notShow == <<depsVars, pluginVars, exitVars, runVars>>

notRun == <<depsVars, pluginVars, exitVars, showVars>>

(***************************************************************************)
(* Bounds                                                                  *)
(***************************************************************************)
MaxTokens == 3
MaxEntryPoints == 2
MaxLoads == 2
MaxCode == 3
MaxEnvs == 2
NumDependents == 2

(***************************************************************************)
(* Strings are sequences of one-character strings.                         *)
(***************************************************************************)
Letters ==
    {"a","b","c","d","e","f","g","h","i","j","k","l","m",
     "n","o","p","q","r","s","t","u","v","w","x","y","z"}

\* str.isalpha on one character
IsAlpha(c) == c \in Letters

\* str.isspace on one character (also what \s matches in re.sub)
IsSpace(c) == c \in {" ", "\t", "\n", "\r", "\f"}

StartsWith(s, p) == Len(s) >= Len(p) /\ SubSeq(s, 1, Len(p)) = p

EndsWith(s, p) == Len(s) >= Len(p) /\ SubSeq(s, Len(s) - Len(p) + 1, Len(s)) = p

\* s[n:] with a 0-based n, as Python slices
From(s, n) == SubSeq(s, n + 1, Len(s))

RECURSIVE Concat(_)
Concat(ss) == IF ss = <<>> THEN <<>> ELSE Head(ss) \o Concat(Tail(ss))

\* sep.join(lines)
RECURSIVE Join(_, _)
Join(lines, sep) ==
    IF lines = <<>> THEN <<>>
    ELSE IF Len(lines) = 1 THEN Head(lines)
    ELSE Head(lines) \o sep \o Join(Tail(lines), sep)

\* raw.replace("\r", "")
RemoveCR(s) == SelectSeq(s, LAMBDA c : c # "\r")

\* "".join(s.split("\\\n")): every backslash-newline pair found scanning left
\* to right is dropped; the scan does not look again at what it joined
RECURSIVE JoinContinuations(_)
JoinContinuations(s) ==
    IF s = <<>> THEN <<>>
    ELSE IF Len(s) >= 2 /\ s[1] = "\\" /\ s[2] = "\n"
         THEN JoinContinuations(From(s, 2))
         ELSE <<Head(s)>> \o JoinContinuations(Tail(s))

\* str.splitlines(): \n, \r and \r\n end a line; no empty last line
RECURSIVE SplitFrom(_, _, _)
SplitFrom(s, i, cur) ==
    IF i > Len(s) THEN (IF cur = <<>> THEN <<>> ELSE <<cur>>)
    ELSE IF s[i] = "\n" THEN <<cur>> \o SplitFrom(s, i + 1, <<>>)
    ELSE IF s[i] = "\r"
         THEN <<cur>> \o SplitFrom(s, IF i < Len(s) /\ s[i + 1] = "\n"
                                       THEN i + 2 ELSE i + 1, <<>>)
    ELSE SplitFrom(s, i + 1, Append(cur, s[i]))

SplitLines(s) == SplitFrom(s, 1, <<>>)

(***************************************************************************)
(* req_file.py                                                             *)
(***************************************************************************)
ONE_ARG ==
    { <<"-","i">>,
      <<"-","-","i","n","d","e","x","-","u","r","l">>,
      <<"-","-","e","x","t","r","a","-","i","n","d","e","x","-","u","r","l">>,
      <<"-","e">>,
      <<"-","-","e","d","i","t","a","b","l","e">>,
      <<"-","c">>,
      <<"-","-","c","o","n","s","t","r","a","i","n","t">>,
      <<"-","r">>,
      <<"-","-","r","e","q","u","i","r","e","m","e","n","t">>,
      <<"-","f">>,
      <<"-","-","f","i","n","d","-","l","i","n","k","s">>,
      <<"-","-","t","r","u","s","t","e","d","-","h","o","s","t">>,
      <<"-","-","u","s","e","-","f","e","a","t","u","r","e">>,
      <<"-","-","n","o","-","b","i","n","a","r","y">>,
      <<"-","-","o","n","l","y","-","b","i","n","a","r","y">> }

ONE_ARG_ESCAPE ==
    { <<"-","c">>,
      <<"-","-","c","o","n","s","t","r","a","i","n","t">>,
      <<"-","r">>,
      <<"-","-","r","e","q","u","i","r","e","m","e","n","t">>,
      <<"-","f">>,
      <<"-","-","f","i","n","d","-","l","i","n","k","s">>,
      <<"-","e">>,
      <<"-","-","e","d","i","t","a","b","l","e">> }

\* re.sub(r"(?<!\\)(\s)", r"\\\1", s): a backslash goes before every
\* whitespace character that no backslash precedes
RECURSIVE EscapeFrom(_, _)
EscapeFrom(s, i) ==
    IF i > Len(s) THEN <<>>
    ELSE (IF IsSpace(s[i]) /\ (i = 1 \/ s[i - 1] # "\\")
          THEN <<"\\", s[i]>> ELSE <<s[i]>>) \o EscapeFrom(s, i + 1)

EscapeSpaces(s) == EscapeFrom(s, 1)

\* the first generator of the loop body: the ONE_ARG flags glued to their value
ArgMatches(line) ==
    { arg \in ONE_ARG :
        /\ StartsWith(line, arg)
        /\ Len(line) > Len(arg)
        /\ ~(IsSpace(line[Len(arg) + 1]) \/ line[Len(arg) + 1] = "=") }

SplitArg(line) ==
    IF ArgMatches(line) = {} THEN line
    ELSE LET arg == CHOOSE a \in ArgMatches(line) : TRUE
         IN  arg \o <<" ">> \o From(line, Len(arg))

\* the second generator reads line[len(e)] with no length test: an index
\* error when the line is exactly the flag
EscapeRaises(line) ==
    \E e \in ONE_ARG_ESCAPE : StartsWith(line, e) /\ Len(line) = Len(e)

EscapeMatches(line) ==
    { e \in ONE_ARG_ESCAPE :
        StartsWith(line, e) /\ Len(line) > Len(e) /\ IsSpace(line[Len(e) + 1]) }

EscapeArg(line) ==
    IF EscapeMatches(line) = {} THEN line
    ELSE LET e == CHOOSE x \in EscapeMatches(line) : TRUE
         IN  SubSeq(line, 1, Len(e)) \o <<" ">> \o EscapeSpaces(From(line, Len(e) + 1))

\* one pass of the for loop of _normalize_raw over a line
NormalizeLine(line) == EscapeArg(SplitArg(line))

NormalizeLineRaises(line) == EscapeRaises(SplitArg(line))

\* PythonDeps._normalize_raw: [err, value]
NormalizeRaw(raw) ==
    LET joined   == JoinContinuations(RemoveCR(raw))
        lines    == SplitLines(joined)
        adjusted == Join([i \in 1..Len(lines) |-> NormalizeLine(lines[i])], <<"\n">>)
    IN  IF \E i \in 1..Len(lines) : NormalizeLineRaises(lines[i])
        THEN [err |-> "IndexError", value |-> <<>>]
        ELSE [err |-> "none",
              value |-> IF EndsWith(joined, <<"\\", "\n">>)
                        THEN adjusted \o <<"\n">> ELSE adjusted]

\* RequirementsFile._pre_process, the line iterator PythonDeps wraps
SuperPreProcess(content) == SplitLines(content)

\* the test of PythonDeps._pre_process: `and` binds tighter than `or`,
\* so line[2] is read only for a -c line
PreProcessRaises(line) ==
    ~StartsWith(line, <<"-","r">>) /\ StartsWith(line, <<"-","c">>) /\ Len(line) < 3

PreProcessTest(line) ==
    \/ StartsWith(line, <<"-","r">>)
    \/ StartsWith(line, <<"-","c">>) /\ Len(line) >= 3 /\ IsAlpha(line[3])

PreProcessLine(line) ==
    IF PreProcessTest(line)
    THEN SubSeq(line, 1, 2) \o <<" ">> \o From(line, 2)
    ELSE line

\* PythonDeps._pre_process: [err, value]
PreProcess(content) ==
    LET lines == SuperPreProcess(content)
    IN  IF \E i \in 1..Len(lines) : PreProcessRaises(lines[i])
        THEN [err |-> "IndexError", value |-> <<>>]
        ELSE [err |-> "none",
              value |-> [i \in 1..Len(lines) |-> PreProcessLine(lines[i])]]

\* the pieces the checked texts are built from
Tokens ==
    { <<"-","r">>, <<"-","c">>, <<"-","i">>,
      <<"-","-","r","e","q","u","i","r","e","m","e","n","t">>,
      <<"x">>, <<" ">>, <<"=">>, <<"\\">>, <<"\n">>, <<"\r">> }

RawInputs ==
    { Concat(ts) : ts \in UNION { [1..n -> Tokens] : n \in 0..MaxTokens } }

DepsInit ==
    /\ d_raw \in RawInputs
    /\ d_mode \in {"deps", "file"}
    /\ d_pc = "start"
    /\ self_raw = <<>>
    /\ d_lines = <<>>
    /\ d_err = "none"

\* PythonDeps.__init__: self._raw = self._normalize_raw(raw)
Construct ==
    /\ d_mode = "deps" /\ d_pc = "start"
    /\ LET r == NormalizeRaw(d_raw)
       IN  /\ d_err' = r.err
           /\ self_raw' = r.value
           /\ d_pc' = IF r.err = "none" THEN "constructed" ELSE "raised"
    /\ UNCHANGED <<d_raw, d_mode, d_lines>>
    /\ UNCHANGED notDeps

\* _pre_process(self._get_file_content(url)) with url the deps themselves
PreProcessSelf ==
    /\ d_mode = "deps" /\ d_pc = "constructed"
    /\ LET r == PreProcess(self_raw)
       IN  /\ d_err' = r.err
           /\ d_lines' = r.value
           /\ d_pc' = IF r.err = "none" THEN "processed" ELSE "raised"
    /\ UNCHANGED <<d_raw, d_mode, self_raw>>
    /\ UNCHANGED notDeps

\* _pre_process(self._get_file_content(url)) with url a file the deps include
PreProcessFile ==
    /\ d_mode = "file" /\ d_pc = "start"
    /\ LET r == PreProcess(d_raw)
       IN  /\ d_err' = r.err
           /\ d_lines' = r.value
           /\ d_pc' = IF r.err = "none" THEN "processed" ELSE "raised"
    /\ UNCHANGED <<d_raw, d_mode, self_raw>>
    /\ UNCHANGED notDeps

DepsNext == Construct \/ PreProcessSelf \/ PreProcessFile

DepsIdle ==
    /\ d_raw = <<>> /\ d_mode = "idle" /\ d_pc = "idle"
    /\ self_raw = <<>> /\ d_lines = <<>> /\ d_err = "none"

(***************************************************************************)
(* plugin/manager.py                                                       *)
(***************************************************************************)
Range(s) == { s[i] : i \in 1..Len(s) }

Reverse(s) == [i \in 1..Len(s) |-> s[Len(s) + 1 - i]]

InjectiveSeqs(S, n) ==
    { s \in UNION { [1..k -> S] : k \in 0..n } :
        \A i, j \in 1..Len(s) : i # j => s[i] # s[j] }

\* the internal_plugins tuple of _register_plugins, in its order
internal_plugins ==
    << "loader_api", "provision", "runner", "pyproject", "cmd_builder", "legacy",
       "version_flag", "exec_", "quickstart", "show_config", "devenv", "list_env",
       "depends", "parallel", "sequential", "package_api" >>

InlinePlugins == {"inline_a", "inline_b"}

EntryPointNames == {"ep1", "ep2", "ep3"}

Hooks ==
    { "tox_add_option", "tox_add_core_config", "tox_add_env_config",
      "tox_register_tox_env", "tox_before_run_commands", "tox_after_run_commands" }

\* pluggy.PluginManager(NAME): nothing registered
NewManager == [plugins |-> <<>>, err |-> "none"]

\* manager.register(plugin): pluggy appends the plugin, and raises ValueError
\* for a plugin that is registered already; once an exception is in flight
\* the rest of the calling method does not run
register(m, plugin) ==
    IF m.err # "none" THEN m
    ELSE IF plugin \in Range(m.plugins) THEN [m EXCEPT !.err = "ValueError"]
    ELSE [m EXCEPT !.plugins = Append(@, plugin)]

\* manager.unregister(plugin)
unregister(m, plugin) ==
    [m EXCEPT !.plugins = SelectSeq(@, LAMBDA q : q # plugin)]

\* manager.get_plugins(): a new set of what is registered
get_plugins(m) == Range(m.plugins)

\* manager.load_setuptools_entrypoints(NAME): registers each entry point in
\* turn, passing over one whose name is registered already
RECURSIVE load_setuptools_entrypoints(_, _)
load_setuptools_entrypoints(m, eps) ==
    IF eps = <<>> THEN m
    ELSE load_setuptools_entrypoints(
            IF Head(eps) \in Range(m.plugins) THEN m ELSE register(m, Head(eps)),
            Tail(eps))

RECURSIVE RegisterAll(_, _)
RegisterAll(m, plugins) ==
    IF plugins = <<>> THEN m
    ELSE RegisterAll(register(m, Head(plugins)), Tail(plugins))

\* a variant of _register_plugins in which state is registered before the internal plugins
RegisterPluginsStateEarly(m, inline, eps) ==
    LET m1 == IF inline # "none" THEN register(m, inline) ELSE m
        m2 == load_setuptools_entrypoints(m1, eps)
        m3 == register(m2, "state")
    IN  RegisterAll(m3, internal_plugins)

\* Plugin._register_plugins
register_plugins(m, inline, eps) ==
    LET m1 == IF inline # "none" THEN register(m, inline) ELSE m
        m2 == load_setuptools_entrypoints(m1, eps)
        m3 == RegisterAll(m2, internal_plugins)
    IN  register(m3, "state")

\* the for loop of load_plugins over get_plugins()
RECURSIVE UnregisterEach(_, _)
UnregisterEach(m, todo) ==
    IF todo = {} THEN m
    ELSE LET p == CHOOSE x \in todo : TRUE
         IN  UnregisterEach(unregister(m, p), todo \ {p})

\* a variant of Reset in which nothing is unregistered
ResetSkipped(m) == m

Reset(m) == UnregisterEach(m, get_plugins(m))

\* whether a registered plugin has an implementation of the hook; show_config
\* has one of tox_add_option
Implements(plugin, hook, noimpl) ==
    \/ plugin \notin noimpl
    \/ plugin = "show_config" /\ hook = "tox_add_option"

\* self.manager.hook.<name>(...): pluggy calls the implementations of the
\* plugins registered without tryfirst/trylast in last-registered-first order
HookCall(m, hook, noimpl) ==
    Reverse(SelectSeq(m.plugins, LAMBDA p : Implements(p, hook, noimpl)))

PluginInit ==
    /\ m_eps \in InjectiveSeqs(EntryPointNames, MaxEntryPoints)
    /\ m_noimpl \in SUBSET {"inline_a", "ep1", "legacy", "state"}
    /\ m_manager = NewManager
    /\ m_inline = "none"
    /\ m_seen = {}
    /\ m_loads = 0
    /\ m_hook = "none"
    /\ m_calls = <<>>

\* Plugin.load_plugins(path); REGISTER._register_tox_env_types(self) ends it
\* with a dispatch of tox_register_tox_env
load_plugins(inline) ==
    /\ m_loads < MaxLoads
    /\ m_manager.err = "none"
    /\ LET m == register_plugins(Reset(m_manager), inline, m_eps)
       IN  /\ m_manager' = m
           /\ m_inline' = inline
           /\ m_seen' = m_seen \cup ({inline} \ {"none"})
           /\ m_loads' = m_loads + 1
           /\ IF m.err = "none"
              THEN /\ m_hook' = "tox_register_tox_env"
                   /\ m_calls' = HookCall(m, "tox_register_tox_env", m_noimpl)
              ELSE UNCHANGED <<m_hook, m_calls>>
    /\ UNCHANGED <<m_eps, m_noimpl>>
    /\ UNCHANGED notPlugin

\* Plugin.tox_add_option ... Plugin.tox_after_run_commands
Dispatch(hook) ==
    /\ m_loads > 0
    /\ m_manager.err = "none"
    /\ m_hook' = hook
    /\ m_calls' = HookCall(m_manager, hook, m_noimpl)
    /\ UNCHANGED <<m_eps, m_noimpl, m_manager, m_inline, m_seen, m_loads>>
    /\ UNCHANGED notPlugin

LoadPlugins == \E inline \in InlinePlugins \cup {"none"} : load_plugins(inline)

tox_add_option == Dispatch("tox_add_option")

tox_add_core_config == Dispatch("tox_add_core_config")

tox_add_env_config == Dispatch("tox_add_env_config")

tox_register_tox_env == Dispatch("tox_register_tox_env")

tox_before_run_commands == Dispatch("tox_before_run_commands")

tox_after_run_commands == Dispatch("tox_after_run_commands")

PluginNext ==
    \/ LoadPlugins
    \/ tox_add_option
    \/ tox_add_core_config
    \/ tox_add_env_config
    \/ tox_register_tox_env
    \/ tox_before_run_commands
    \/ tox_after_run_commands

PluginIdle ==
    /\ m_eps = <<>> /\ m_noimpl = {} /\ m_manager = NewManager
    /\ m_inline = "none" /\ m_seen = {} /\ m_loads = 0 /\ m_hook = "none"
    /\ m_calls = <<>>

(***************************************************************************)
(* run.py                                                                  *)
(***************************************************************************)
ArgSeqs == { <<>>, <<"c">>, <<"config">>, <<"run">> }

\* get_options: the command the arguments name
Command(args) ==
    IF args # <<>> /\ Head(args) \in {"c", "config"} THEN "config" ELSE "run"

\* the codes a handler reports an environment failure with
FailureCodes == ((0 - MaxCode)..MaxCode) \ {0, -2}

\* what state.handlers[command](state) may return
HandlerReturns(command) ==
    IF command = "config"
    THEN { [kind |-> "int", code |-> 0] }
    ELSE { [kind |-> "None", code |-> 0] }
         \cup { [kind |-> "int", code |-> c] : c \in FailureCodes \cup {0} }

\* what leaves a call other than a return
Raised == { [kind |-> "KeyboardInterrupt", code |-> 0], [kind |-> "Exception", code |-> 0] }

\* the end of main: result = handler(state); None becomes 0
main(result) ==
    [kind |-> "return", code |-> IF result.kind = "None" THEN 0 ELSE result.code]

\* a variant of run in which a keyboard interrupt exits with 0
RunInterruptAsSuccess(ended) ==
    IF ended.kind = "return" THEN [exc |-> "SystemExit", code |-> ended.code]
    ELSE IF ended.kind = "KeyboardInterrupt" THEN [exc |-> "SystemExit", code |-> 0]
    ELSE [exc |-> ended.kind, code |-> 0]

\* run: try main / except KeyboardInterrupt / raise SystemExit(result)
run(ended) ==
    IF ended.kind = "return" THEN [exc |-> "SystemExit", code |-> ended.code]
    ELSE IF ended.kind = "KeyboardInterrupt" THEN [exc |-> "SystemExit", code |-> -2]
    ELSE [exc |-> ended.kind, code |-> 0]

NoOutcome == [kind |-> "none", code |-> 0]

NoExit == [exc |-> "none", code |-> 0]

ExitInit ==
    /\ x_args \in { [none |-> TRUE, value |-> <<>>] }
                  \cup { [none |-> FALSE, value |-> a] : a \in ArgSeqs }
    /\ x_argv \in ArgSeqs
    /\ x_pc = "start"
    /\ x_command = "none"
    /\ x_result = NoOutcome
    /\ x_main = NoOutcome
    /\ x_exit = NoExit

\* main(sys.argv[1:] if args is None else args) up to state.options.command
SetupState ==
    /\ x_pc = "start"
    /\ \/ /\ x_command' = Command(IF x_args.none THEN x_argv ELSE x_args.value)
          /\ x_pc' = "handler"
          /\ UNCHANGED x_main
       \/ /\ x_main' \in Raised
          /\ x_pc' = "main_done"
          /\ UNCHANGED x_command
    /\ UNCHANGED <<x_args, x_argv, x_result, x_exit>>
    /\ UNCHANGED notExit

\* handler = state.handlers[command]; result = handler(state)
Handler ==
    /\ x_pc = "handler"
    /\ \/ \E r \in HandlerReturns(x_command) : x_result' = r /\ x_main' = main(r)
       \/ x_main' \in Raised /\ UNCHANGED x_result
    /\ x_pc' = "main_done"
    /\ UNCHANGED <<x_args, x_argv, x_command, x_exit>>
    /\ UNCHANGED notExit

\* the except clause and the raise of run
RunExit ==
    /\ x_pc = "main_done"
    /\ x_exit' = run(x_main)
    /\ x_pc' = "exited"
    /\ UNCHANGED <<x_args, x_argv, x_command, x_result, x_main>>
    /\ UNCHANGED notExit

ExitNext == SetupState \/ Handler \/ RunExit

ExitIdle ==
    /\ x_args = [none |-> TRUE, value |-> <<>>] /\ x_argv = <<>> /\ x_pc = "idle"
    /\ x_command = "none" /\ x_result = NoOutcome /\ x_main = NoOutcome
    /\ x_exit = NoExit

(***************************************************************************)
(* session/cmd/show_config.py                                              *)
(***************************************************************************)
EnvNames == {"py", "lint", "pkg"}

\* iterating a ConfigSet: its keys, in the order they were added
ConfKeys(section) ==
    IF section = "tox" THEN <<"env_list", "skip_missing_interpreters">>
    ELSE <<"base_python", "deps", "commands">>

\* conf.primary_key(key): an alias names its key
primary_key(key) ==
    IF key = "basepython" THEN "base_python"
    ELSE IF key = "envlist" THEN "env_list"
    ELSE key

\* key in conf
InConf(key, section) == primary_key(key) \in Range(ConfKeys(section))

\* stringify(conf[key]): [str, nl: the text has a line break, multi_line]
Stringify(key) ==
    IF key \in {"deps", "env_list"}
    THEN [str |-> "list", nl |-> TRUE, multi_line |-> TRUE]
    ELSE IF key = "commands"
    THEN [str |-> "command", nl |-> FALSE, multi_line |-> TRUE]
    ELSE [str |-> "text", nl |-> FALSE, multi_line |-> FALSE]

\* conf.unused()
Unused(section) == IF section = "lint" THEN <<"extra">> ELSE <<>>

\* _colored(is_colored, color, msg)
Colored(is_colored, color) == IF is_colored THEN color ELSE "none"

Line(kind, section, key, val, ml, color, valcolor) ==
    [kind |-> kind, section |-> section, key |-> key, val |-> val,
     multi_line |-> ml, color |-> color, valcolor |-> valcolor]

\* print(...): nothing is printed once an exception is in flight
Put(out, line) ==
    IF out.err # "none" THEN out ELSE [out EXCEPT !.lines = Append(@, line)]

print_section_header(out, is_colored, section) ==
    Put(out, Line("header", section, "", "", FALSE, Colored(is_colored, "YELLOW"), "none"))

print_comment(out, is_colored, section) ==
    Put(out, Line("comment", section, "", "unused", FALSE, Colored(is_colored, "CYAN"), "none"))

print_key_value(out, is_colored, section, key, val, valcolor, multi_line) ==
    Put(out, Line("kv", section, key, val, multi_line, Colored(is_colored, "GREEN"), valcolor))

\* a variant of the loop body without the try/except of lines 101-105
PrintKeyUncaught(out, is_colored, section, key0, raising) ==
    LET key == primary_key(key0)
        v   == Stringify(key)
    IN  IF <<section, key>> \in raising
        THEN [out EXCEPT !.err = IF @ = "none" THEN "Exception" ELSE @]
        ELSE print_key_value(out, is_colored, section, key, v.str, "none",
                             v.multi_line /\ v.nl)

\* the body of the for loop of print_conf, for a key of conf
PrintKey(out, is_colored, section, key0, raising) ==
    LET key == primary_key(key0)
        v   == Stringify(key)
    IN  IF <<section, key>> \in raising
        THEN print_key_value(out, is_colored, section, key, "# Exception",
                             Colored(is_colored, "LIGHTRED_EX"), FALSE)
        ELSE print_key_value(out, is_colored, section, key, v.str, "none",
                             v.multi_line /\ v.nl)

RECURSIVE PrintKeys(_, _, _, _, _)
PrintKeys(out, is_colored, section, keys, raising) ==
    IF keys = <<>> THEN out
    ELSE PrintKeys(IF InConf(Head(keys), section)
                   THEN PrintKey(out, is_colored, section, Head(keys), raising)
                   ELSE out,
                   is_colored, section, Tail(keys), raising)

\* print_conf(is_colored, conf, keys)
print_conf(out, is_colored, section, keys, raising) ==
    LET printed == PrintKeys(out, is_colored, section,
                             IF keys # <<>> THEN keys ELSE ConfKeys(section), raising)
    IN  IF Unused(section) # <<>> /\ keys = <<>>
        THEN print_comment(printed, is_colored, section)
        ELSE printed

\* _print_env(tox_env); is_first is "nothing printed yet"
print_env(out, is_colored, name, keys, raising) ==
    LET o1 == IF out.lines = <<>> THEN out
              ELSE Put(out, Line("blank", "", "", "", FALSE, "none", "none"))
        o2 == print_section_header(o1, is_colored, name)
        o3 == IF keys = <<>>
              THEN print_key_value(o2, is_colored, name, "type", "type", "none", FALSE)
              ELSE o2
    IN  print_conf(o3, is_colored, name, keys, raising)

RECURSIVE PrintEnvs(_, _, _, _, _)
PrintEnvs(out, is_colored, envs, keys, raising) ==
    IF envs = <<>> THEN out
    ELSE PrintEnvs(print_env(out, is_colored, Head(envs), keys, raising),
                   is_colored, Tail(envs), keys, raising)

PrintCore(out, is_colored, keys, raising) ==
    print_conf(print_section_header(
                   Put(out, Line("blank", "", "", "", FALSE, "none", "none")),
                   is_colored, "tox"),
               is_colored, "tox", keys, raising)

\* show_config(state): what it prints
ShowConfigOutput(envs, keys, is_all, show_core, is_colored, raising) ==
    LET start   == [lines |-> <<>>, err |-> "none"]
        printed == PrintEnvs(start, is_colored, envs, keys, raising)
    IN  IF is_all \/ show_core
        THEN PrintCore(printed, is_colored, keys, raising)
        ELSE printed

KeyLists == { <<>>, <<"deps">>, <<"basepython", "nokey">>, <<"env_list", "commands">> }

RaiseCandidates ==
    { <<"py", "base_python">>, <<"py", "deps">>, <<"lint", "commands">>,
      <<"tox", "env_list">> }

ShowInit ==
    /\ s_envs \in InjectiveSeqs(EnvNames, MaxEnvs)
    /\ s_raising \in SUBSET RaiseCandidates
    /\ s_keys \in KeyLists
    /\ s_is_all \in BOOLEAN
    /\ s_show_core \in BOOLEAN
    /\ s_colored \in BOOLEAN
    /\ s_pc = "start"
    /\ s_out = [lines |-> <<>>, err |-> "none"]
    /\ s_ret = -1

\* show_config(state)
show_config ==
    /\ s_pc = "start"
    /\ s_out' = ShowConfigOutput(s_envs, s_keys, s_is_all, s_show_core, s_colored,
                                 s_raising)
    /\ s_ret' = IF s_out'.err = "none" THEN 0 ELSE -1
    /\ s_pc' = "done"
    /\ UNCHANGED <<s_envs, s_raising, s_keys, s_is_all, s_show_core, s_colored>>
    /\ UNCHANGED notShow

ShowNext == show_config

ShowIdle ==
    /\ s_envs = <<>> /\ s_raising = {} /\ s_keys = <<>> /\ s_is_all = FALSE
    /\ s_show_core = FALSE /\ s_colored = FALSE /\ s_pc = "idle"
    /\ s_out = [lines |-> <<>>, err |-> "none"] /\ s_ret = -1

(***************************************************************************)
(* tox_env/python/runner.py                                                *)
(***************************************************************************)
\* the run environments that share the package environment
Dependents == 1..NumDependents

\* environment 0 has no package environment (package_env is None)
RunEnvs == 0..NumDependents

HasPackageEnv(r) == r \in Dependents

Terminal == {"succeeded", "failed", "skipped"}

\* the base pythons an environment asks for
BasePythons(r) == IF r = 0 THEN <<"python3">> ELSE <<"py39", "python3.9">>

\* register_config: skip_missing_interpreters is a bool of the core section
\* that defaults to True
SkipMissingInterpreters(cfg) == IF cfg = "unset" THEN TRUE ELSE cfg = "true"

NoRaise == [exc |-> "none", args |-> <<>>]

\* a variant of no_base_python_found with the two branches exchanged
NoBasePythonInverted(skip_missing, base_pythons) ==
    IF ~skip_missing THEN [exc |-> "Skip", args |-> <<>>]
    ELSE [exc |-> "NoInterpreter", args |-> base_pythons]

\* PythonRun.no_base_python_found: the exception it raises
no_base_python_found(skip_missing, base_pythons) ==
    IF skip_missing THEN [exc |-> "Skip", args |-> <<>>]
    ELSE [exc |-> "NoInterpreter", args |-> base_pythons]

\* the terminal state the runner gives an environment whose setup raised
StateOfRaise(exc) == IF exc = "NoInterpreter" THEN "failed" ELSE "skipped"

\* a variant of setup in which packaging is the first step after super().setup()
SetupPackageFirst(step, has_package_env) ==
    CASE step = "super_setup" -> IF has_package_env THEN "install_package" ELSE "deps"
      [] step = "install_package" -> "deps"
      [] step = "deps" -> IF has_package_env THEN "package_deps" ELSE "commands"
      [] step = "package_deps" -> "commands"

\* PythonRun.setup: the step that follows a step
setup(step, has_package_env) ==
    CASE step = "super_setup" -> "deps"
      [] step = "deps" -> IF has_package_env THEN "package_deps" ELSE "commands"
      [] step = "package_deps" -> "install_package"
      [] step = "install_package" -> "commands"

\* the package environment's build: [pkg, raised, package]
Build(pkg, build) ==
    IF build = "fail"
    THEN [pkg |-> [pkg EXCEPT !.state = "failed", !.builds = @ + 1, !.calls = @ + 1],
          raised |-> TRUE, package |-> <<>>]
    ELSE LET made == IF build = "wheel" THEN <<"wheel", pkg.builds + 1>> ELSE <<>>
         IN  [pkg |-> [pkg EXCEPT !.state = "succeeded", !.builds = @ + 1,
                                  !.calls = @ + 1, !.artifact = made],
              raised |-> FALSE, package |-> made]

\* a variant of perform_packaging in which every call builds again
PerformPackagingRebuild(pkg, build) == Build(pkg, build)

\* package_env.perform_packaging(): the build runs on the first call and its
\* outcome, the artifact or the failure, is what every later call gets
perform_packaging(pkg, build) ==
    IF pkg.state = "pending" THEN Build(pkg, build)
    ELSE [pkg |-> [pkg EXCEPT !.calls = @ + 1],
          raised |-> pkg.state = "failed", package |-> pkg.artifact]

\* a variant of install_package in which a failed packaging does not raise
InstallPackageIgnoreFailure(has_package_env, pkg, build) ==
    IF ~has_package_env
    THEN [pkg |-> pkg, raised |-> FALSE, installs |-> FALSE, package |-> <<>>]
    ELSE LET res == perform_packaging(pkg, build)
         IN  [pkg |-> res.pkg, raised |-> FALSE,
              installs |-> res.package # <<>>, package |-> res.package]

\* PythonRun.install_package: [pkg, raised, installs, package]
install_package(has_package_env, pkg, build) ==
    IF ~has_package_env
    THEN [pkg |-> pkg, raised |-> FALSE, installs |-> FALSE, package |-> <<>>]
    ELSE LET res == perform_packaging(pkg, build)
         IN  [pkg |-> res.pkg, raised |-> res.raised,
              installs |-> ~res.raised /\ res.package # <<>>, package |-> res.package]

Active(r) == r_state[r] \notin Terminal \cup {"pending"}

RunInit ==
    /\ r_mode \in {"sequential", "parallel"}
    /\ r_skipcfg \in {"unset", "true", "false"}
    /\ r_missing \in SUBSET {0, 1}
    /\ r_build \in {"wheel", "empty", "fail"}
    /\ r_state = [r \in RunEnvs |-> "pending"]
    /\ r_installed = [r \in RunEnvs |-> <<>>]
    /\ r_artifact = [r \in RunEnvs |-> <<>>]
    /\ r_raised = [r \in RunEnvs |-> NoRaise]
    /\ r_cmds = [r \in RunEnvs |-> FALSE]
    /\ r_pkg = [state |-> "pending", builds |-> 0, calls |-> 0, artifact |-> <<>>]

runInputs == <<r_mode, r_skipcfg, r_missing, r_build>>

\* the scheduler hands an environment to a worker: one at a time when
\* sequential, and never one whose package environment failed
Start(r) ==
    /\ r_state[r] = "pending"
    /\ r_mode = "sequential" => \A q \in RunEnvs : ~Active(q)
    /\ ~(HasPackageEnv(r) /\ r_pkg.state = "failed")
    /\ r_state' = [r_state EXCEPT ![r] = "super_setup"]
    /\ UNCHANGED <<runInputs, r_installed, r_artifact, r_raised, r_cmds, r_pkg>>
    /\ UNCHANGED notRun

\* the scheduler skips a pending environment whose package environment failed
SkipPending(r) ==
    /\ r_state[r] = "pending"
    /\ HasPackageEnv(r) /\ r_pkg.state = "failed"
    /\ r_state' = [r_state EXCEPT ![r] = "skipped"]
    /\ UNCHANGED <<runInputs, r_installed, r_artifact, r_raised, r_cmds, r_pkg>>
    /\ UNCHANGED notRun

\* setup line 39, super().setup(): finds the interpreter, or calls
\* no_base_python_found
SuperSetup(r) ==
    /\ r_state[r] = "super_setup"
    /\ IF r \in r_missing
       THEN LET e == no_base_python_found(SkipMissingInterpreters(r_skipcfg),
                                          BasePythons(r))
            IN  /\ r_raised' = [r_raised EXCEPT ![r] = e]
                /\ r_state' = [r_state EXCEPT ![r] =
                                  IF e.exc = "none" THEN setup("super_setup", HasPackageEnv(r))
                                  ELSE StateOfRaise(e.exc)]
       ELSE /\ r_state' = [r_state EXCEPT ![r] = setup("super_setup", HasPackageEnv(r))]
            /\ UNCHANGED r_raised
    /\ UNCHANGED <<runInputs, r_installed, r_artifact, r_cmds, r_pkg>>
    /\ UNCHANGED notRun

\* setup line 40: self.cached_install(self.conf["deps"], ..., "deps")
InstallDeps(r) ==
    /\ r_state[r] = "deps"
    /\ r_installed' = [r_installed EXCEPT ![r] = Append(@, "deps")]
    /\ r_state' = [r_state EXCEPT ![r] = setup("deps", HasPackageEnv(r))]
    /\ UNCHANGED <<runInputs, r_artifact, r_raised, r_cmds, r_pkg>>
    /\ UNCHANGED notRun

\* setup lines 43-44: get_package_dependencies and cached_install(package_deps)
InstallPackageDeps(r) ==
    /\ r_state[r] = "package_deps"
    /\ r_installed' = [r_installed EXCEPT ![r] = Append(@, "package_deps")]
    /\ r_state' = [r_state EXCEPT ![r] = setup("package_deps", HasPackageEnv(r))]
    /\ UNCHANGED <<runInputs, r_artifact, r_raised, r_cmds, r_pkg>>
    /\ UNCHANGED notRun

\* setup line 45: self.install_package()
InstallPackage(r) ==
    /\ r_state[r] = "install_package"
    /\ LET res == install_package(HasPackageEnv(r), r_pkg, r_build)
       IN  /\ r_pkg' = res.pkg
           /\ IF res.raised
              THEN /\ r_raised' = [r_raised EXCEPT ![r] =
                                      [exc |-> "PackagingFailed", args |-> <<>>]]
                   /\ r_state' = [r_state EXCEPT ![r] = StateOfRaise("PackagingFailed")]
                   /\ UNCHANGED <<r_installed, r_artifact>>
              ELSE /\ r_state' = [r_state EXCEPT ![r] =
                                     setup("install_package", HasPackageEnv(r))]
                   /\ r_installed' = [r_installed EXCEPT ![r] =
                                         IF res.installs THEN Append(@, "package") ELSE @]
                   /\ r_artifact' = [r_artifact EXCEPT ![r] =
                                        IF res.installs THEN res.package ELSE @]
                   /\ UNCHANGED r_raised
    /\ UNCHANGED <<runInputs, r_cmds>>
    /\ UNCHANGED notRun

\* the environment's commands run and it ends succeeded or failed
RunCommands(r) ==
    /\ r_state[r] = "commands"
    /\ r_cmds' = [r_cmds EXCEPT ![r] = TRUE]
    /\ \E end \in {"succeeded", "failed"} : r_state' = [r_state EXCEPT ![r] = end]
    /\ UNCHANGED <<runInputs, r_installed, r_artifact, r_raised, r_pkg>>
    /\ UNCHANGED notRun

RunNext ==
    \E r \in RunEnvs :
        \/ Start(r)
        \/ SkipPending(r)
        \/ SuperSetup(r)
        \/ InstallDeps(r)
        \/ InstallPackageDeps(r)
        \/ InstallPackage(r)
        \/ RunCommands(r)

RunIdle ==
    /\ r_mode = "idle" /\ r_skipcfg = "unset" /\ r_missing = {} /\ r_build = "wheel"
    /\ r_state = <<>> /\ r_installed = <<>> /\ r_artifact = <<>>
    /\ r_raised = <<>> /\ r_cmds = <<>>
    /\ r_pkg = [state |-> "pending", builds |-> 0, calls |-> 0, artifact |-> <<>>]

(***************************************************************************)
(* Claims                                                                  *)
(***************************************************************************)
Labels(r) == Range(r_installed[r])

C4_NoBasePythonFound ==
    \A r \in RunEnvs :
        (r \in r_missing /\ (r_raised[r] # NoRaise
                             \/ r_state[r] \notin {"pending", "super_setup", "skipped"})) =>
            /\ r_skipcfg \in {"unset", "true"} =>
                  r_raised[r] = [exc |-> "Skip", args |-> <<>>] /\ r_state[r] = "skipped"
            /\ r_skipcfg = "false" =>
                  /\ r_raised[r] = [exc |-> "NoInterpreter", args |-> BasePythons(r)]
                  /\ r_state[r] = "failed"
            /\ r_installed[r] = <<>>
            /\ ~r_cmds[r]

C4_Witness ==
    /\ r_skipcfg = "false"
    /\ r_state[1] = "failed" /\ r_raised[1].exc = "NoInterpreter"
    /\ r_state[0] = "failed"

C4_WitnessSkip ==
    r_skipcfg = "unset" /\ r_state[1] = "skipped" /\ r_raised[1].exc = "Skip"

\* the exit codes of C5, for a run that ended in SystemExit
ExitCodes ==
    /\ x_result.kind = "None" => x_exit.code = 0
    /\ x_result.kind = "int" => x_exit.code = x_result.code
    /\ x_main.kind = "KeyboardInterrupt" => x_exit.code = -2
    /\ x_exit.code = -2 => x_main.kind = "KeyboardInterrupt"
    /\ x_exit.code = 0 =>
          x_main.kind = "return" /\ (x_result.kind = "None" \/ x_result.code = 0)

\* C5, as stated: run always ends by raising SystemExit, with code 0 for
\* success (a handler returning None included), -2 for a keyboard interrupt
\* and no handler outcome sharing it, and the handler's non-zero code for a
\* failure.
C5_AlwaysSystemExit ==
    x_pc = "exited" => x_exit.exc = "SystemExit" /\ ExitCodes

\* C5, amended: when main returns or is interrupted by KeyboardInterrupt, run
\* ends by raising SystemExit with those codes; any other exception raised
\* inside main leaves run unchanged, and no SystemExit is raised.
C5_SystemExitUnlessOtherException ==
    x_pc = "exited" =>
        /\ x_main.kind \in {"return", "KeyboardInterrupt"} =>
              x_exit.exc = "SystemExit" /\ ExitCodes
        /\ x_main.kind = "Exception" => x_exit.exc = "Exception"

C5_Witness ==
    /\ x_pc = "exited"
    /\ x_main.kind = "KeyboardInterrupt"
    /\ x_exit = [exc |-> "SystemExit", code |-> -2]
    /\ x_command = "run"

C5_WitnessNone ==
    x_pc = "exited" /\ x_result.kind = "None" /\ x_exit.code = 0

\* the registrations of one load_plugins call, in the order the code makes them
Registered(inline, eps) ==
    (IF inline = "none" THEN <<>> ELSE <<inline>>) \o eps \o internal_plugins \o <<"state">>

C6_WitnessSame ==
    m_loads = 2 /\ m_seen = {"inline_a"} /\ m_inline = "inline_a"

ImplementersInOrder(hook) ==
    SelectSeq(Registered(m_inline, m_eps), LAMBDA p : Implements(p, hook, m_noimpl))

KeysAsked(section) == IF s_keys # <<>> THEN s_keys ELSE ConfKeys(section)

SectionsPrinted ==
    Range(s_envs) \cup (IF s_is_all \/ s_show_core THEN {"tox"} ELSE {})

\* C8: a key whose value cannot be resolved is printed as "# Exception" and
\* the exception goes no further: every asked key of every selected section is
\* printed and show_config returns 0; [tox] is printed when all environments
\* are selected or --core is given, only then, and after every environment
\* section.
C8_ShowConfigIsolatesErrors ==
    s_pc = "done" =>
        LET lines == s_out.lines
            N     == Len(lines)
        IN  /\ s_ret = 0
            /\ s_out.err = "none"
            /\ \A sec \in SectionsPrinted :
                  \A k \in Range(KeysAsked(sec)) :
                      InConf(k, sec) =>
                          \E i \in 1..N :
                              /\ lines[i].kind = "kv"
                              /\ lines[i].section = sec
                              /\ lines[i].key = primary_key(k)
                              /\ lines[i].val = "# Exception"
                                    <=> <<sec, primary_key(k)>> \in s_raising
            /\ \A sec \in SectionsPrinted :
                  \E i \in 1..N : lines[i].kind = "header" /\ lines[i].section = sec
            /\ \A i \in 1..N : lines[i].kind # "blank" => lines[i].section \in SectionsPrinted
            /\ \A i, j \in 1..N :
                  (lines[i].section = "tox" /\ lines[j].section \in EnvNames) => j < i

C8_Witness ==
    /\ s_pc = "done"
    /\ s_envs = <<"py", "lint">>
    /\ s_keys = <<>>
    /\ {<<"py", "base_python">>, <<"tox", "env_list">>} \subseteq s_raising
    /\ s_is_all
    /\ Len(s_out.lines) = 16

\* C9: a deps string that ends in a newline is normalized to one that ends
\* in a newline, and no newline is added to one that does not.
C9_TrailingNewlinePreserved ==
    (d_mode = "deps" /\ d_pc = "constructed") =>
        (EndsWith(d_raw, <<"\n">>) <=> EndsWith(self_raw, <<"\n">>))

\* the text _pre_process was given
PreProcessed == IF d_mode = "deps" THEN self_raw ELSE d_raw

\* C10: _normalize_raw and _pre_process never raise an index error, a line
\* that is exactly a one-argument flag included, and a -r / -c line gets a
\* space after the flag only when a letter follows the flag.
C10_NormalizationTotal ==
    /\ d_err = "none"
    /\ d_pc = "processed" =>
          LET given == SplitLines(PreProcessed)
          IN  \A i \in 1..Len(given) :
                  d_lines[i] # given[i] => Len(given[i]) >= 3 /\ IsAlpha(given[i][3])

(***************************************************************************)
(* Specifications                                                          *)
(***************************************************************************)
DepsStart == DepsInit /\ PluginIdle /\ ExitIdle /\ ShowIdle /\ RunIdle

SpecDeps == DepsStart /\ [][DepsNext]_vars

PluginStart == PluginInit /\ DepsIdle /\ ExitIdle /\ ShowIdle /\ RunIdle

SpecPlugin == PluginStart /\ [][PluginNext]_vars

ExitStart == ExitInit /\ DepsIdle /\ PluginIdle /\ ShowIdle /\ RunIdle

SpecExit == ExitStart /\ [][ExitNext]_vars

ShowStart == ShowInit /\ DepsIdle /\ PluginIdle /\ ExitIdle /\ RunIdle

SpecShow == ShowStart /\ [][ShowNext]_vars

RunStart == RunInit /\ DepsIdle /\ PluginIdle /\ ExitIdle /\ ShowIdle

SpecRun == RunStart /\ [][RunNext]_vars
=============================================================================
